---- MODULE Spec2Model ----
(***************************************************************************)
(* A model of the realtime pipeline of AudioPlayer (Player/AudioPlayer.cpp):*)
(* the decoder thread, the IOProc (Render), the collector thread and the   *)
(* control operations Play, Pause, Stop, Enqueue and SeekToFrame.          *)
(*                                                                         *)
(* Frame counts are scaled down: the ring buffer holds                     *)
(* RING_BUFFER_SIZE_FRAMES frames and the decoder writes chunks of         *)
(* RING_BUFFER_WRITE_CHUNK_SIZE_FRAMES frames, as in the source, but with  *)
(* small values.  Every access to memory shared between threads that       *)
(* another thread can change in between is a step of its own; the steps    *)
(* merged into one action are listed with the action.                      *)
(***************************************************************************)
EXTENDS Integers, Sequences, FiniteSets, TLC

\* ------------------------------------------------------------------ bounds
RING_BUFFER_SIZE_FRAMES == 3
RING_BUFFER_WRITE_CHUNK_SIZE_FRAMES == 2
kActiveDecoderArraySize == 2
\* decoders that are ever enqueued, in enqueue order 1..NumDecoders
NumDecoders == 2
\* the longest decoder, in frames
MaxLen == 4
\* the largest packet count the converter asks of its input callback
MaxRequest == 2
\* the frame counters are 64 bit in the source; the model stops rendering
\* and decoding beyond this absolute frame index
MaxFrameIndex == 6

\* TLC's integers are 32 bit: the UInt32 casts of the source wrap at this
\* modulus, which is far above every frame count of the model
UInt32Modulus == 2 ^ 20

Decoders == 1 .. NumDecoders
NULL == 0
RingIndexes == 0 .. (RING_BUFFER_SIZE_FRAMES - 1)
\* the content of a ring buffer slot that holds no decoded frame
Silence == <<0, 0>>

VARIABLES
    \* ---- AudioPlayer members
    mIsPlaying,             \* bool
    outputRunning,          \* the device has the IOProc started (AudioDeviceStart/Stop)
    mFlags,                 \* subset of {"IsSeeking", "VirtualFormatChanged"}
    mDecoderQueue,          \* sequence of decoders
    mActiveDecoders,        \* slot -> decoder state (NULL when empty)
    mFramesDecoded,
    mFramesRendered,
    mFramesRenderedLastPass,
    ring,                   \* CARingBuffer storage: index -> <<decoder, frame>>
    \* ---- heap: one DecoderStateData per decoder
    states,
    \* ---- the decoders (external collaborators)
    decoderLen,             \* frames the decoder really produces
    decoderTotal,           \* what GetTotalFrames() reports up front
    decoderPos,             \* GetCurrentFrame()
    \* ---- decoder thread
    wpc, wDecoder, wStartTime, wSkipped, wExpected, wNewFrame,
    \* ---- IOProc
    rpc, rPurpose, rLoaded, rState, rTimeStamp, rRemaining, rPulls, rFrames,
    \* ---- caller thread
    cpc, enqueued,
    \* ---- what the caller will do: decoders it enqueues, calls of SeekToFrame and Stop
    toEnqueue, seeksLeft, stopsLeft,
    \* ---- observation
    log,                    \* per decoder: the lifecycle callbacks and the first read, in order
    fetchCount, fetchOK,    \* frames fetched so far are the enqueued decoders' frames in order
    uaf,                    \* threads that dereferenced a destroyed DecoderStateData
                            \* (or, "converter", used a disposed AudioConverter)
    \* ---- formats and converter
    mRingBufferFormat,      \* the format of the first decoder set up (0: none yet)
    mConverter,             \* "null" or "valid"
    decoderFormat,          \* GetFormat() of each decoder
    decoderSeekable,        \* SupportsSeeking() of each decoder
    observed,               \* whether the run records what the caller's calls returned
    \* ---- the caller's calls
    cResult,                \* what the last Enqueue or SeekToFrame returned
    pausedAt,               \* <<mFramesRendered when Pause() was called>>, until the next call returns
    \* ---- what the environment will do: converter creations that fail, format changes
    failuresLeft, changesLeft,
    \* ---- property listener thread
    hpc,
    \* ---- the constructor
    ctorStep,               \* index in ConstructorSteps of the step to run next
    ctorThrown,             \* the constructor threw
    acquired                \* the resources the constructor holds

vars == <<mIsPlaying, outputRunning, mFlags, mDecoderQueue, mActiveDecoders,
          mFramesDecoded, mFramesRendered, mFramesRenderedLastPass, ring, states,
          decoderLen, decoderTotal, decoderPos,
          wpc, wDecoder, wStartTime, wSkipped, wExpected, wNewFrame,
          rpc, rPurpose, rLoaded, rState, rTimeStamp, rRemaining, rPulls, rFrames,
          cpc, enqueued, toEnqueue, seeksLeft, stopsLeft,
          log, fetchCount, fetchOK, uaf,
          mRingBufferFormat, mConverter, decoderFormat, decoderSeekable, observed,
          cResult, pausedAt, failuresLeft, changesLeft, hpc,
          ctorStep, ctorThrown, acquired>>

playerVars == <<mIsPlaying, outputRunning, mFlags, mDecoderQueue, mActiveDecoders,
                mFramesDecoded, mFramesRendered, mFramesRenderedLastPass, ring, states>>
decoderVars == <<decoderLen, decoderTotal, decoderPos>>
workerVars == <<wpc, wDecoder, wStartTime, wSkipped, wExpected, wNewFrame>>
renderVars == <<rpc, rPurpose, rLoaded, rState, rTimeStamp, rRemaining, rPulls, rFrames>>
callerVars == <<cpc, enqueued, toEnqueue, seeksLeft, stopsLeft>>
fetchVars == <<fetchCount, fetchOK>>
formatVars == <<mRingBufferFormat, mConverter>>
\* The slots of mActiveDecoders: kActiveDecoderArraySize of them, but in
\* SpecSlots, where the array is one slot short of the decoders enqueued.
Slots == DOMAIN mActiveDecoders

constructorVars == <<ctorStep, ctorThrown, acquired>>
\* what no step of the constructed player writes
attributeVars == <<decoderFormat, decoderSeekable, observed, constructorVars>>
callVars == <<cResult, pausedAt>>
controlVars == <<formatVars, attributeVars, callVars, failuresLeft, changesLeft, hpc>>

\* ------------------------------------------------------------------ helpers
Min(a, b) == IF a <= b THEN a ELSE b
MinOf(S) == CHOOSE x \in S : \A y \in S : x <= y

\* static_cast<UInt32>(x) of a 64 bit signed value
ToUInt32(x) == x % UInt32Modulus

\* a DecoderStateData that was never allocated
NoState ==
    [alloc |-> "none", mTimeStamp |-> 0, mTotalFrames |-> 0, mFramesRendered |-> 0,
     mFrameToSeek |-> -1, mKeepDecoding |-> FALSE, mReadyForCollection |-> FALSE]

\* new DecoderStateData(decoder)
NewDecoderStateData(total) ==
    [alloc |-> "live", mTimeStamp |-> 0, mTotalFrames |-> total, mFramesRendered |-> 0,
     mFrameToSeek |-> -1, mKeepDecoding |-> TRUE, mReadyForCollection |-> FALSE]

\* The use of a destroyed DecoderStateData is undefined behaviour: the model
\* records the thread that did it and follows the behaviour no further.
Defined == uaf = {}

\* a thread that dereferences the decoder states in S
Deref(thread, S) ==
    uaf' = IF \E s \in S : states[s].alloc = "freed" THEN uaf \cup {thread} ELSE uaf

\* CARingBuffer::Store: n frames of decoder d, the first being its frame `first',
\* at absolute frame index dest
Store(rb, n, dest, d, first) ==
    [i \in RingIndexes |->
        IF \E k \in 0 .. (n - 1) : (dest + k) % RING_BUFFER_SIZE_FRAMES = i
        THEN LET k == CHOOSE k \in 0 .. (n - 1) : (dest + k) % RING_BUFFER_SIZE_FRAMES = i
             IN  <<d, first + k>>
        ELSE rb[i]]

\* CARingBuffer::Fetch: the n frames from absolute frame index src
Fetch(rb, n, src) ==
    [k \in 1 .. n |-> rb[(src + k - 1) % RING_BUFFER_SIZE_FRAMES]]

\* the k-th frame (k >= 0) of the enqueued decoders played one after the other
RECURSIVE FrameOfSequence(_, _, _)
FrameOfSequence(len, d, k) ==
    IF d > NumDecoders THEN Silence
    ELSE IF k < len[d] THEN <<d, k>>
    ELSE FrameOfSequence(len, d + 1, k - len[d])

\* AudioDecoder::SeekToFrame: the frame the decoder lands on, -1 on failure
DecoderSeekToFrame(d, frame) ==
    IF 0 <= frame /\ frame <= decoderLen[d] THEN frame ELSE -1

\* The slot whose state has the smallest time stamp among the slots in `cand';
\* the scans compare with <, so of equal time stamps the first slot wins.
FirstSmallest(slots, cand) ==
    IF cand = {} THEN NULL
    ELSE slots[CHOOSE i \in cand :
                 \A j \in cand :
                    \/ states[slots[i]].mTimeStamp < states[slots[j]].mTimeStamp
                    \/ /\ states[slots[i]].mTimeStamp = states[slots[j]].mTimeStamp
                       /\ i <= j]

\* AudioPlayer::GetCurrentDecoderState over the slot values in `slots'
GetCurrentDecoderState(slots) ==
    FirstSmallest(slots, {i \in Slots :
                            /\ slots[i] # NULL
                            /\ ~states[slots[i]].mReadyForCollection
                            /\ states[slots[i]].mTotalFrames # states[slots[i]].mFramesRendered})

\* AudioPlayer::GetDecoderStateStartingAfterTimeStamp
GetDecoderStateStartingAfterTimeStamp(slots, timeStamp) ==
    FirstSmallest(slots, {i \in Slots :
                            /\ slots[i] # NULL
                            /\ ~states[slots[i]].mReadyForCollection
                            /\ states[slots[i]].mTimeStamp > timeStamp})

\* ------------------------------------------------------------------ initial state
\* The state after the constructor: nothing queued, output not started, both
\* threads waiting.
\* The steps of the constructor (lines 237-383), in order.
ConstructorSteps ==
    <<"ringBuffer", "decoderSemaphore", "collectorSemaphore", "mutex",
      "decoderThread", "collectorThread", "defaultDevice", "openOutput">>

\* what the constructor acquires
Resources ==
    {"ringBuffer", "decoderSemaphore", "collectorSemaphore", "mutex",
     "decoderThread", "collectorThread"}

\* the position of the constructor when it has returned
ConstructorDone == Len(ConstructorSteps) + 1

\* The members as the constructor's initialiser list and its loop over the
\* slots set them (lines 237-238, 296-297).
MembersWith(size) ==
    /\ mIsPlaying = FALSE
    /\ outputRunning = FALSE
    /\ mFlags = {}
    /\ mDecoderQueue = <<>>
    /\ mActiveDecoders = [i \in 1 .. size |-> NULL]
    /\ mFramesDecoded = 0
    /\ mFramesRendered = 0
    /\ mFramesRenderedLastPass = 0
    /\ ring = [i \in RingIndexes |-> Silence]
    /\ states = [d \in Decoders |-> NoState]
    /\ decoderPos = [d \in Decoders |-> 0]
    /\ wpc = "idle" /\ wDecoder = NULL /\ wStartTime = 0 /\ wSkipped = 0 /\ wExpected = 0 /\ wNewFrame = 0
    /\ rpc = "idle" /\ rPurpose = "none" /\ rLoaded = [i \in 1 .. size |-> NULL]
    /\ rState = NULL /\ rTimeStamp = 0 /\ rRemaining = 0 /\ rPulls = 0 /\ rFrames = 0
    /\ cpc = "idle" /\ enqueued = 0
    /\ log = [d \in Decoders |-> <<>>]
    /\ fetchCount = 0 /\ fetchOK = TRUE
    /\ uaf = {}
    /\ mRingBufferFormat = 0 /\ mConverter = "null"
    /\ cResult = "none" /\ pausedAt = <<>>
    /\ hpc = "idle"

Members == MembersWith(kActiveDecoderArraySize)

Constructed ==
    /\ Members
    /\ ctorStep = ConstructorDone
    /\ ctorThrown = FALSE
    /\ acquired = Resources

\* The decoders the caller enqueues: each produces between 0 and MaxLen
\* frames and reports that number, or one frame more, as its total.
DecodersOfLengths(lengths) ==
    /\ decoderLen \in [Decoders -> lengths]
    /\ decoderTotal \in [Decoders -> 0 .. (MaxLen + 1)]
    /\ \A d \in Decoders : decoderTotal[d] \in {decoderLen[d], decoderLen[d] + 1}

\* Decoders of one format that support seeking; every converter can be
\* created and the stream keeps its virtual format.
Undisturbed ==
    /\ decoderFormat = [d \in Decoders |-> 1]
    /\ decoderSeekable = [d \in Decoders |-> TRUE]
    /\ failuresLeft = 0
    /\ changesLeft = 0

\* One decoder; the caller may seek once and stop once.
Init ==
    /\ Constructed
    /\ DecodersOfLengths({0, 1, MaxLen})
    /\ Undisturbed
    /\ observed = FALSE
    /\ \A d \in Decoders : d > 1 => decoderLen[d] = 0 /\ decoderTotal[d] = 0
    /\ toEnqueue = 1
    /\ seeksLeft = 1
    /\ stopsLeft = 1

\* ------------------------------------------------------------------ decoder thread
\* Appends an observed event to a decoder's log.
Logged(lg, d, events) == [lg EXCEPT ![d] = @ \o events]

\* The head of the queue is removed under the mutex (lines 1559-1580).  With
\* an empty queue the thread waits on its semaphore, at most two seconds, and
\* looks again: no step.
WorkerDequeue ==
    /\ Defined
    /\ wpc = "idle"
    /\ mDecoderQueue # <<>>
    /\ wDecoder' = Head(mDecoderQueue)
    /\ mDecoderQueue' = Tail(mDecoderQueue)
    /\ wpc' = "activate"
    /\ UNCHANGED <<mIsPlaying, outputRunning, mFlags, mActiveDecoders, mFramesDecoded,
                   mFramesRendered, mFramesRenderedLastPass, ring, states>>
    /\ UNCHANGED <<wStartTime, wSkipped, wExpected, wNewFrame>>
    /\ UNCHANGED <<decoderVars, renderVars, callerVars, log, fetchVars, uaf>>
    /\ UNCHANGED controlVars

\* The decoder state is created, stamped with mFramesDecoded and put in the
\* first empty slot (lines 1589-1608).  Only this thread fills slots, so the
\* scan and its compare-and-swap are one step.  When no slot is empty the
\* loop ends without inserting and the thread goes on to decode all the same.
WorkerActivate ==
    /\ Defined
    /\ wpc = "activate"
    /\ LET d == wDecoder
           free == {i \in Slots : mActiveDecoders[i] = NULL}
       IN  /\ states' = [states EXCEPT ![d] =
                            [NewDecoderStateData(decoderTotal[d]) EXCEPT !.mTimeStamp = mFramesDecoded]]
           /\ mActiveDecoders' = IF free = {} THEN mActiveDecoders
                                 ELSE [mActiveDecoders EXCEPT ![MinOf(free)] = d]
    /\ wStartTime' = mFramesDecoded
    /\ wpc' = "while"
    /\ UNCHANGED <<mIsPlaying, outputRunning, mFlags, mDecoderQueue, mFramesDecoded,
                   mFramesRendered, mFramesRenderedLastPass, ring>>
    /\ UNCHANGED <<wDecoder, wSkipped, wExpected, wNewFrame>>
    /\ UNCHANGED <<decoderVars, renderVars, callerVars, log, fetchVars, uaf>>
    /\ UNCHANGED controlVars

\* The free-space test of the for(;;) loop (lines 1617-1620) and, when it
\* passes, the test for a pending seek (line 1623).
WorkerGate(d) ==
    LET framesAvailableToWrite ==
            ToUInt32(RING_BUFFER_SIZE_FRAMES - (mFramesDecoded - mFramesRendered))
    IN  IF RING_BUFFER_WRITE_CHUNK_SIZE_FRAMES <= framesAvailableToWrite
        THEN IF states[d].mFrameToSeek # -1
             THEN /\ mFlags' = mFlags \cup {"IsSeeking"}
                  /\ wpc' = "seek"
             ELSE /\ mFlags' = mFlags
                  /\ wpc' = "decode"
        \* break, then semaphore_timedwait (line 1708), then the while test
        ELSE /\ mFlags' = mFlags
             /\ wpc' = "while"

\* while(true == decoderStateData->mKeepDecoding) (line 1612); when it is
\* false the buffer list is released (line 1713) and the thread waits for the
\* next decoder.
WorkerWhile ==
    /\ Defined
    /\ wpc = "while"
    /\ Deref("worker", {wDecoder})
    /\ IF states[wDecoder].mKeepDecoding
       THEN /\ WorkerGate(wDecoder)
            /\ UNCHANGED <<wDecoder, wStartTime>>
       ELSE /\ wpc' = "idle"
            /\ wDecoder' = NULL
            /\ wStartTime' = 0
            /\ mFlags' = mFlags
    /\ UNCHANGED <<mIsPlaying, outputRunning, mDecoderQueue, mActiveDecoders, mFramesDecoded,
                   mFramesRendered, mFramesRenderedLastPass, ring, states>>
    /\ UNCHANGED <<wSkipped, wExpected, wNewFrame>>
    /\ UNCHANGED <<decoderVars, renderVars, callerVars, log, fetchVars>>
    /\ UNCHANGED controlVars

\* The next pass of for(;;) after a chunk was stored: the loop does not look
\* at mKeepDecoding.
WorkerFor ==
    /\ Defined
    /\ wpc = "for"
    /\ Deref("worker", {wDecoder})
    /\ WorkerGate(wDecoder)
    /\ UNCHANGED <<mIsPlaying, outputRunning, mDecoderQueue, mActiveDecoders, mFramesDecoded,
                   mFramesRendered, mFramesRenderedLastPass, ring, states>>
    /\ UNCHANGED <<wDecoder, wStartTime, wSkipped, wExpected, wNewFrame>>
    /\ UNCHANGED <<decoderVars, renderVars, callerVars, log, fetchVars>>
    /\ UNCHANGED controlVars

\* A worker that takes whatever the decoder's seek returned for a frame.
SeekSucceeded_Always(newFrame) == TRUE

\* if(-1 != newFrame) (line 1637)
SeekSucceeded(newFrame) == newFrame # -1

\* The seek is handed to the decoder, the request is cleared and, when the
\* seek succeeded, the state's mFramesRendered is set to the landing frame
\* and the skipped frames are added to mFramesDecoded (lines 1626-1645).
WorkerSeek ==
    /\ Defined
    /\ wpc = "seek"
    /\ Deref("worker", {wDecoder})
    /\ LET d == wDecoder
           currentFrameBeforeSeeking == decoderPos[d]
           newFrame == DecoderSeekToFrame(d, states[d].mFrameToSeek)
           framesSkipped == newFrame - currentFrameBeforeSeeking
       IN  IF SeekSucceeded(newFrame)
           THEN /\ decoderPos' = [decoderPos EXCEPT ![d] = newFrame]
                /\ states' = [states EXCEPT ![d].mFrameToSeek = -1,
                                            ![d].mFramesRendered = newFrame]
                /\ mFramesDecoded' = mFramesDecoded + framesSkipped
                /\ wSkipped' = framesSkipped
                /\ wpc' = "seekLoad"
                /\ mFlags' = mFlags
           ELSE /\ decoderPos' = decoderPos
                /\ states' = [states EXCEPT ![d].mFrameToSeek = -1]
                /\ mFramesDecoded' = mFramesDecoded
                /\ wSkipped' = wSkipped
                /\ wpc' = "seekFailed"
                /\ mFlags' = mFlags
    /\ UNCHANGED <<mIsPlaying, outputRunning, mDecoderQueue, mActiveDecoders,
                   mFramesRendered, mFramesRenderedLastPass, ring>>
    /\ UNCHANGED <<wDecoder, wStartTime, wExpected, wNewFrame>>
    /\ UNCHANGED <<decoderLen, decoderTotal, renderVars, callerVars, log, fetchVars>>
    /\ UNCHANGED controlVars

\* After a seek that failed the counters are left alone and the seeking flag
\* is cleared (lines 1636-1637, 1659).
WorkerSeekFailed ==
    /\ Defined
    /\ wpc = "seekFailed"
    /\ mFlags' = mFlags \ {"IsSeeking"}
    /\ wpc' = "decode"
    /\ UNCHANGED <<mIsPlaying, outputRunning, mDecoderQueue, mActiveDecoders, mFramesDecoded,
                   mFramesRendered, mFramesRenderedLastPass, ring, states>>
    /\ UNCHANGED <<wDecoder, wStartTime, wSkipped, wExpected, wNewFrame>>
    /\ UNCHANGED <<decoderVars, renderVars, callerVars, log, fetchVars, uaf>>
    /\ UNCHANGED controlVars

\* WorkerSeek in the two steps a caller's SeekToFrame can fall between.
\* The seek is handed to the decoder with the request read at that moment
\* (lines 1626-1631).
WorkerSeekCall ==
    /\ Defined
    /\ wpc = "seek"
    /\ Deref("worker", {wDecoder})
    /\ LET d == wDecoder
           currentFrameBeforeSeeking == decoderPos[d]
           newFrame == DecoderSeekToFrame(d, states[d].mFrameToSeek)
       IN  /\ wNewFrame' = newFrame
           /\ IF SeekSucceeded(newFrame)
              THEN /\ decoderPos' = [decoderPos EXCEPT ![d] = newFrame]
                   /\ wSkipped' = newFrame - currentFrameBeforeSeeking
              ELSE /\ decoderPos' = decoderPos
                   /\ wSkipped' = wSkipped
    /\ wpc' = "seekClear"
    /\ UNCHANGED <<playerVars, wDecoder, wStartTime, wExpected>>
    /\ UNCHANGED <<decoderLen, decoderTotal, renderVars, callerVars, log, fetchVars>>
    /\ UNCHANGED controlVars

\* The request is compared with itself and swapped to -1, whatever it holds
\* by now (line 1633); when the seek succeeded the state's mFramesRendered is
\* set to the landing frame and the skipped frames are added to
\* mFramesDecoded (lines 1637-1645).
WorkerSeekClear ==
    /\ Defined
    /\ wpc = "seekClear"
    /\ Deref("worker", {wDecoder})
    /\ LET d == wDecoder
       IN  IF SeekSucceeded(wNewFrame)
           THEN /\ states' = [states EXCEPT ![d].mFrameToSeek = -1,
                                            ![d].mFramesRendered = wNewFrame]
                /\ mFramesDecoded' = mFramesDecoded + wSkipped
                /\ wpc' = "seekLoad"
           ELSE /\ states' = [states EXCEPT ![d].mFrameToSeek = -1]
                /\ mFramesDecoded' = mFramesDecoded
                /\ wpc' = "seekFailed"
    /\ wNewFrame' = 0
    /\ UNCHANGED <<mIsPlaying, outputRunning, mFlags, mDecoderQueue, mActiveDecoders,
                   mFramesRendered, mFramesRenderedLastPass, ring>>
    /\ UNCHANGED <<wDecoder, wStartTime, wSkipped, wExpected>>
    /\ UNCHANGED <<decoderVars, renderVars, callerVars, log, fetchVars>>
    /\ UNCHANGED controlVars

\* The arguments of the compare-and-swap of line 1646 are loaded.
WorkerSeekLoad ==
    /\ Defined
    /\ wpc = "seekLoad"
    /\ wExpected' = mFramesRendered
    /\ wpc' = "seekSwap"
    /\ UNCHANGED <<playerVars, decoderVars, renderVars, callerVars, log, fetchVars, uaf>>
    /\ UNCHANGED <<wDecoder, wStartTime, wSkipped, wNewFrame>>
    /\ UNCHANGED controlVars

\* The compare-and-swap of mFramesRendered to mFramesDecoded (it fails when
\* mFramesRendered changed since it was loaded), the reset of the converter
\* and the clearing of the seeking flag (lines 1646-1659).
WorkerSeekSwap ==
    /\ Defined
    /\ wpc = "seekSwap"
    /\ mFramesRendered' = IF mFramesRendered = wExpected THEN mFramesDecoded ELSE mFramesRendered
    /\ mFlags' = mFlags \ {"IsSeeking"}
    /\ wExpected' = 0
    /\ wSkipped' = 0
    /\ wpc' = "decode"
    /\ UNCHANGED <<mIsPlaying, outputRunning, mDecoderQueue, mActiveDecoders, mFramesDecoded,
                   mFramesRenderedLastPass, ring, states>>
    /\ UNCHANGED <<wDecoder, wStartTime, wNewFrame>>
    /\ UNCHANGED <<decoderVars, renderVars, callerVars, log, fetchVars, uaf>>
    /\ UNCHANGED controlVars

\* One chunk is read from the decoder and stored (lines 1662-1700): the read,
\* the decoding-started callback when the chunk began at frame 0, the store at
\* startingFrameNumber + startTime and the addition to mFramesDecoded; or, when
\* the read returned no frame, the decoding-finished callback and the end of
\* the state's decoding.  The log records the decoder's first read as "read".
WorkerDecode ==
    /\ Defined
    /\ wpc = "decode"
    /\ mFramesDecoded < MaxFrameIndex
    /\ Deref("worker", {wDecoder})
    /\ LET d == wDecoder
           startingFrameNumber == decoderPos[d]
           framesDecoded == Min(RING_BUFFER_WRITE_CHUNK_SIZE_FRAMES, decoderLen[d] - decoderPos[d])
           firstRead == IF \E i \in 1 .. Len(log[d]) : log[d][i] = "read" THEN <<>> ELSE <<"read">>
           started == IF startingFrameNumber = 0 THEN <<"decodingStarted">> ELSE <<>>
       IN  /\ decoderPos' = [decoderPos EXCEPT ![d] = @ + framesDecoded]
           /\ IF framesDecoded # 0
              THEN /\ ring' = Store(ring, framesDecoded, startingFrameNumber + wStartTime,
                                    d, startingFrameNumber)
                   /\ mFramesDecoded' = mFramesDecoded + framesDecoded
                   /\ states' = states
                   /\ log' = Logged(log, d, firstRead \o started)
                   /\ wpc' = "for"
              ELSE /\ ring' = ring
                   /\ mFramesDecoded' = mFramesDecoded
                   /\ states' = [states EXCEPT ![d].mKeepDecoding = FALSE,
                                               ![d].mTotalFrames = startingFrameNumber]
                   /\ log' = Logged(log, d, firstRead \o started \o <<"decodingFinished">>)
                   /\ wpc' = "while"
    /\ UNCHANGED <<mIsPlaying, outputRunning, mFlags, mDecoderQueue, mActiveDecoders,
                   mFramesRendered, mFramesRenderedLastPass>>
    /\ UNCHANGED <<wDecoder, wStartTime, wSkipped, wExpected, wNewFrame>>
    /\ UNCHANGED <<decoderLen, decoderTotal, renderVars, callerVars, fetchVars>>
    /\ UNCHANGED controlVars

\* ------------------------------------------------------------------ Pause and Stop
\* AudioPlayer::Pause (lines 475-481): StopOutput when playing.
PauseEffect ==
    IF mIsPlaying
    THEN /\ outputRunning' = FALSE
         /\ mIsPlaying' = FALSE
    ELSE /\ outputRunning' = outputRunning
         /\ mIsPlaying' = mIsPlaying

\* AudioPlayer::StopActiveDecoders (lines 2035-2051)
StopActiveDecoders(st) ==
    [d \in Decoders |->
        IF \E i \in Slots : mActiveDecoders[i] = d
        THEN [st[d] EXCEPT !.mKeepDecoding = FALSE, !.mReadyForCollection = TRUE]
        ELSE st[d]]

\* ------------------------------------------------------------------ IOProc
\* The device calls the IOProc (line 1243): the callback is entered and has
\* not yet tested a flag.  Where this step is left out, RenderBegin enters the
\* callback and tests the flags at once.
RenderEnter ==
    /\ Defined
    /\ rpc = "idle"
    /\ outputRunning
    /\ mFramesRendered < MaxFrameIndex
    /\ rpc' = "entered"
    /\ UNCHANGED <<mIsPlaying, outputRunning, mFlags, mDecoderQueue, mActiveDecoders,
                   mFramesDecoded, mFramesRendered, mFramesRenderedLastPass, ring, states>>
    /\ UNCHANGED <<rPurpose, rLoaded, rState, rTimeStamp, rRemaining, rPulls, rFrames>>
    /\ UNCHANGED <<decoderVars, workerVars, callerVars, log, fetchVars, uaf>>
    /\ UNCHANGED controlVars

\* The head of Render (lines 1262-1288): the two flag tests and the test for
\* an empty ring buffer.  The device calls the IOProc only while it is started.
RenderBegin ==
    /\ Defined
    /\ (rpc = "idle" /\ outputRunning) \/ rpc = "entered"
    /\ mFramesRendered < MaxFrameIndex
    /\ IF "VirtualFormatChanged" \in mFlags
       THEN /\ rpc' = "stopOutput"
            /\ UNCHANGED <<outputRunning, mFramesRenderedLastPass, rPurpose, rLoaded,
                           rState, rTimeStamp, rRemaining, rPulls, rFrames>>
       ELSE IF "IsSeeking" \in mFlags
       THEN /\ rpc' = "idle"
            /\ UNCHANGED <<outputRunning, mFramesRenderedLastPass, rPurpose, rLoaded,
                           rState, rTimeStamp, rRemaining, rPulls, rFrames>>
       ELSE IF ToUInt32(mFramesDecoded - mFramesRendered) = 0
       THEN /\ rpc' = "load"
            /\ rPurpose' = "empty"
            /\ UNCHANGED <<outputRunning, mFramesRenderedLastPass, rLoaded, rState,
                           rTimeStamp, rRemaining, rPulls, rFrames>>
       \* AudioConverterFillComplexBuffer fails at once without a converter
       ELSE /\ mFramesRenderedLastPass' = 0
            /\ rpc' = IF mConverter = "valid" THEN "fill" ELSE "idle"
            /\ UNCHANGED <<outputRunning, rPurpose, rLoaded, rState, rTimeStamp,
                           rRemaining, rPulls, rFrames>>
    /\ UNCHANGED <<mIsPlaying, mFlags, mDecoderQueue, mActiveDecoders, mFramesDecoded,
                   mFramesRendered, ring, states>>
    /\ UNCHANGED <<decoderVars, workerVars, callerVars, log, fetchVars, uaf>>
    /\ UNCHANGED controlVars

\* StopOutput() called by Render when it saw the virtual-format-changed flag
\* (line 1263): the device stops calling the IOProc.
RenderStopOutput ==
    /\ Defined
    /\ rpc = "stopOutput"
    /\ outputRunning' = FALSE
    /\ rpc' = "idle"
    /\ UNCHANGED <<mIsPlaying, mFlags, mDecoderQueue, mActiveDecoders, mFramesDecoded,
                   mFramesRendered, mFramesRenderedLastPass, ring, states>>
    /\ UNCHANGED <<rPurpose, rLoaded, rState, rTimeStamp, rRemaining, rPulls, rFrames>>
    /\ UNCHANGED <<decoderVars, workerVars, callerVars, log, fetchVars, uaf>>
    /\ UNCHANGED controlVars

\* The frames in fs continue the sequence of the enqueued decoders' frames.
ContinuesSequence(fs) ==
    \A k \in 1 .. Len(fs) : fs[k] = FrameOfSequence(decoderLen, 1, fetchCount + k - 1)

\* FillConversionBuffer with the frames read assigned to mFramesRendered where
\* the code adds them.
FillConversionBuffer_Assigns(ioNumberDataPackets) ==
    LET framesAvailableToRead == ToUInt32(mFramesDecoded - mFramesRendered)
        framesToRead == Min(framesAvailableToRead, ioNumberDataPackets)
        fetched == Fetch(ring, framesToRead, mFramesRendered)
    IN  /\ mFramesRendered' = framesToRead
        /\ mFramesRenderedLastPass' = mFramesRenderedLastPass + framesToRead
        /\ IF fetchOK /\ ContinuesSequence(fetched)
           THEN /\ fetchCount' = fetchCount + framesToRead
                /\ fetchOK' = TRUE
           ELSE /\ fetchCount' = 0
                /\ fetchOK' = FALSE

\* AudioPlayer::FillConversionBuffer (lines 1513-1538), called by the
\* converter for ioNumberDataPackets frames.
FillConversionBuffer(ioNumberDataPackets) ==
    LET framesAvailableToRead == ToUInt32(mFramesDecoded - mFramesRendered)
        framesToRead == Min(framesAvailableToRead, ioNumberDataPackets)
        fetched == Fetch(ring, framesToRead, mFramesRendered)
    IN  /\ mFramesRendered' = mFramesRendered + framesToRead
        /\ mFramesRenderedLastPass' = mFramesRenderedLastPass + framesToRead
        /\ IF fetchOK /\ ContinuesSequence(fetched)
           THEN /\ fetchCount' = fetchCount + framesToRead
                /\ fetchOK' = TRUE
           ELSE /\ fetchCount' = 0
                /\ fetchOK' = FALSE

\* AudioConverterFillComplexBuffer calls the input callback (line 1290), at
\* most MaxPulls times in one pass.
MaxPulls == 1

RenderFill ==
    /\ Defined
    /\ rpc = "fill"
    /\ rPulls < MaxPulls
    /\ IF mConverter = "valid"
       THEN /\ \E n \in 1 .. MaxRequest : FillConversionBuffer(n)
            /\ rPulls' = rPulls + 1
            /\ uaf' = uaf
       \* the converter was disposed of under the pass
       ELSE /\ uaf' = uaf \cup {"converter"}
            /\ UNCHANGED <<mFramesRendered, mFramesRenderedLastPass, fetchVars, rPulls>>
    /\ UNCHANGED <<mIsPlaying, outputRunning, mFlags, mDecoderQueue, mActiveDecoders,
                   mFramesDecoded, ring, states>>
    /\ UNCHANGED <<rpc, rPurpose, rLoaded, rState, rTimeStamp, rRemaining, rFrames>>
    /\ UNCHANGED <<decoderVars, workerVars, callerVars, log>>
    /\ UNCHANGED controlVars

\* The converter returns (lines 1297-1318): the decoder thread is signalled
\* and, when frames were rendered, the distribution starts.
RenderFillDone ==
    /\ Defined
    /\ rpc = "fill"
    /\ rPulls >= 1
    /\ rPulls' = 0
    /\ UNCHANGED rFrames
    /\ IF mFramesRenderedLastPass = 0
       THEN /\ rpc' = "idle"
            /\ UNCHANGED <<rPurpose, rRemaining>>
       ELSE /\ rpc' = "load"
            /\ rPurpose' = "current"
            /\ rRemaining' = mFramesRenderedLastPass
    /\ UNCHANGED <<rLoaded, rState, rTimeStamp>>
    /\ UNCHANGED <<playerVars, decoderVars, workerVars, callerVars, log, fetchVars, uaf>>
    /\ UNCHANGED controlVars

\* A scan of mActiveDecoders loads the slots (lines 1994, 2018) ...
RenderLoad ==
    /\ Defined
    /\ rpc = "load"
    /\ rLoaded' = mActiveDecoders
    /\ rpc' = "select"
    /\ UNCHANGED <<rPurpose, rState, rTimeStamp, rRemaining, rPulls, rFrames>>
    /\ UNCHANGED <<playerVars, decoderVars, workerVars, callerVars, log, fetchVars, uaf>>
    /\ UNCHANGED controlVars

\* ... and dereferences what it loaded (lines 1996-2008, 2020-2029).  With
\* an empty ring buffer and no current decoder Render calls Stop (line 1280).
RenderSelect ==
    /\ Defined
    /\ rpc = "select"
    /\ Deref("render", {rLoaded[i] : i \in Slots} \ {NULL})
    /\ LET found == IF rPurpose = "next"
                    THEN GetDecoderStateStartingAfterTimeStamp(rLoaded, rTimeStamp)
                    ELSE GetCurrentDecoderState(rLoaded)
       IN  /\ rState' = IF rPurpose = "empty" THEN NULL ELSE found
           /\ rpc' = IF rPurpose = "empty"
                     THEN (IF found = NULL THEN "stop" ELSE "idle")
                     ELSE (IF found = NULL THEN "idle" ELSE "attribute")
           /\ rRemaining' = IF rPurpose # "empty" /\ found # NULL THEN rRemaining ELSE 0
    /\ rLoaded' = [i \in Slots |-> NULL]
    /\ rPurpose' = "none"
    /\ rTimeStamp' = 0
    /\ UNCHANGED <<rPulls, rFrames>>
    /\ UNCHANGED <<playerVars, decoderVars, workerVars, callerVars, log, fetchVars>>
    /\ UNCHANGED controlVars

\* The rest of a pass of the distribution loop (lines 1328-1346), with the
\* frames it takes to be this decoder's.
Attribute(framesFromThisDecoder) ==
    /\ Deref("render", {rState})
    /\ LET d == rState
           timeStamp == states[d].mTimeStamp
           started == IF states[d].mFramesRendered = 0 THEN <<"renderingStarted">> ELSE <<>>
           rendered == states[d].mFramesRendered + framesFromThisDecoder
           finished == rendered = states[d].mTotalFrames
           framesRemainingToDistribute == rRemaining - framesFromThisDecoder
       IN  /\ states' = [states EXCEPT ![d].mFramesRendered = rendered,
                                       ![d].mReadyForCollection = IF finished THEN TRUE ELSE @]
           /\ log' = Logged(log, d, started \o
                                    (IF finished THEN <<"renderingFinished">> ELSE <<>>))
           /\ IF framesRemainingToDistribute = 0
              THEN /\ rpc' = "idle"
                   /\ rRemaining' = 0
                   /\ rTimeStamp' = 0
                   /\ rPurpose' = "none"
              ELSE /\ rpc' = "load"
                   /\ rRemaining' = framesRemainingToDistribute
                   /\ rTimeStamp' = timeStamp
                   /\ rPurpose' = "next"
    /\ rState' = NULL
    /\ rFrames' = 0
    /\ UNCHANGED <<rLoaded, rPulls>>
    /\ UNCHANGED <<mIsPlaying, outputRunning, mFlags, mDecoderQueue, mActiveDecoders,
                   mFramesDecoded, mFramesRendered, mFramesRenderedLastPass, ring>>
    /\ UNCHANGED <<decoderVars, workerVars, callerVars, fetchVars>>
    /\ UNCHANGED controlVars

\* std::min(decoderFramesRemaining, mFramesRenderedLastPass) (lines 1325-1326)
FramesFromThisDecoder(d) ==
    Min(states[d].mTotalFrames - states[d].mFramesRendered, mFramesRenderedLastPass)

\* One pass of the distribution loop (lines 1323-1346).
RenderAttribute ==
    /\ Defined
    /\ rpc = "attribute"
    /\ Attribute(FramesFromThisDecoder(rState))

\* The pass of the distribution loop in two steps: the frames that are this
\* decoder's are computed from what the state holds (lines 1325-1326) ...
RenderAttributeRead ==
    /\ Defined
    /\ rpc = "attribute"
    /\ Deref("render", {rState})
    /\ rFrames' = FramesFromThisDecoder(rState)
    /\ rpc' = "attributeAdd"
    /\ UNCHANGED <<rPurpose, rLoaded, rState, rTimeStamp, rRemaining, rPulls>>
    /\ UNCHANGED <<playerVars, decoderVars, workerVars, callerVars, log, fetchVars>>
    /\ UNCHANGED controlVars

\* ... and then added to the state's mFramesRendered (lines 1328-1346).
RenderAttributeAdd ==
    /\ Defined
    /\ rpc = "attributeAdd"
    /\ Attribute(rFrames)

\* Stop() called by Render (line 1280): Pause and StopActiveDecoders ...
RenderStop ==
    /\ Defined
    /\ rpc = "stop"
    /\ PauseEffect
    /\ states' = StopActiveDecoders(states)
    /\ rpc' = "stopDecoded"
    /\ UNCHANGED <<mFlags, mDecoderQueue, mActiveDecoders, mFramesDecoded, mFramesRendered,
                   mFramesRenderedLastPass, ring>>
    /\ UNCHANGED <<rPurpose, rLoaded, rState, rTimeStamp, rRemaining, rPulls, rFrames>>
    /\ UNCHANGED <<decoderVars, workerVars, callerVars, log, fetchVars, uaf>>
    /\ UNCHANGED controlVars

\* ... mFramesDecoded = 0 (line 491) ...
RenderStopDecoded ==
    /\ Defined
    /\ rpc = "stopDecoded"
    /\ mFramesDecoded' = 0
    /\ rpc' = "stopRendered"
    /\ UNCHANGED <<mIsPlaying, outputRunning, mFlags, mDecoderQueue, mActiveDecoders,
                   mFramesRendered, mFramesRenderedLastPass, ring, states>>
    /\ UNCHANGED <<rPurpose, rLoaded, rState, rTimeStamp, rRemaining, rPulls, rFrames>>
    /\ UNCHANGED <<decoderVars, workerVars, callerVars, log, fetchVars, uaf>>
    /\ UNCHANGED controlVars

\* ... mFramesRendered = 0 (line 492).
RenderStopRendered ==
    /\ Defined
    /\ rpc = "stopRendered"
    /\ mFramesRendered' = 0
    /\ rpc' = "idle"
    /\ UNCHANGED <<mIsPlaying, outputRunning, mFlags, mDecoderQueue, mActiveDecoders,
                   mFramesDecoded, mFramesRenderedLastPass, ring, states>>
    /\ UNCHANGED <<rPurpose, rLoaded, rState, rTimeStamp, rRemaining, rPulls, rFrames>>
    /\ UNCHANGED <<decoderVars, workerVars, callerVars, log, fetchVars, uaf>>
    /\ UNCHANGED controlVars

\* ------------------------------------------------------------------ caller thread
\* What a call of the caller's thread returns (the return statements of
\* Enqueue, lines 1193 and 1213, and of SeekToFrame, lines 599-611), kept for
\* the properties of the runs that observe it.
Returns(value) == cResult' = IF observed THEN value ELSE cResult

\* AudioPlayer::Play (lines 467-473): IsPlaying() is tested and the device is
\* started ...
Play ==
    /\ Defined
    /\ cpc = "idle"
    /\ ~mIsPlaying
    /\ outputRunning' = TRUE
    /\ cpc' = "playAssign"
    /\ UNCHANGED <<mIsPlaying, mFlags, mDecoderQueue, mActiveDecoders, mFramesDecoded,
                   mFramesRendered, mFramesRenderedLastPass, ring, states>>
    /\ UNCHANGED <<enqueued, toEnqueue, seeksLeft, stopsLeft>>
    /\ UNCHANGED <<decoderVars, workerVars, renderVars, log, fetchVars, uaf>>
    /\ UNCHANGED controlVars

\* ... and what StartOutput returned is assigned to mIsPlaying (line 472).
PlayAssign ==
    /\ Defined
    /\ cpc = "playAssign"
    /\ mIsPlaying' = TRUE
    /\ cpc' = "idle"
    /\ pausedAt' = <<>>
    /\ UNCHANGED <<outputRunning, mFlags, mDecoderQueue, mActiveDecoders, mFramesDecoded,
                   mFramesRendered, mFramesRenderedLastPass, ring, states>>
    /\ UNCHANGED <<enqueued, toEnqueue, seeksLeft, stopsLeft>>
    /\ UNCHANGED <<decoderVars, workerVars, renderVars, log, fetchVars, uaf>>
    /\ UNCHANGED <<formatVars, attributeVars, cResult, failuresLeft, changesLeft, hpc>>

\* A Pause() that rewinds the player to frame 0.
Pause_Rewinds ==
    /\ Defined
    /\ cpc = "idle"
    /\ mIsPlaying
    /\ PauseEffect
    /\ mFramesRendered' = 0
    /\ pausedAt' = IF observed THEN <<mFramesRendered>> ELSE <<>>
    /\ UNCHANGED <<mFlags, mDecoderQueue, mActiveDecoders, mFramesDecoded,
                   mFramesRenderedLastPass, ring, states>>
    /\ UNCHANGED <<decoderVars, workerVars, renderVars, callerVars, log, fetchVars, uaf>>
    /\ UNCHANGED <<formatVars, attributeVars, cResult, failuresLeft, changesLeft, hpc>>

\* AudioPlayer::Pause (lines 475-481)
Pause ==
    /\ Defined
    /\ cpc = "idle"
    /\ mIsPlaying
    /\ PauseEffect
    /\ pausedAt' = IF observed THEN <<mFramesRendered>> ELSE <<>>
    /\ UNCHANGED <<mFlags, mDecoderQueue, mActiveDecoders, mFramesDecoded, mFramesRendered,
                   mFramesRenderedLastPass, ring, states>>
    /\ UNCHANGED <<decoderVars, workerVars, renderVars, callerVars, log, fetchVars, uaf>>
    /\ UNCHANGED <<formatVars, attributeVars, cResult, failuresLeft, changesLeft, hpc>>

\* An Enqueue that takes every format for the ring buffer's.
formatsMatch_Always(decoder) == TRUE

\* The comparison of the decoder's format with mRingBufferFormat (line 1187)
formatsMatch(decoder) == decoderFormat[decoder] = mRingBufferFormat

\* AudioPlayer::Enqueue(AudioDecoder *) (lines 1154-1214).  Without a current
\* decoder state and with an empty queue the decoder's format becomes the
\* ring buffer's, the converter is built (the result is not looked at) and
\* the ring buffer is allocated anew; otherwise a decoder of another format
\* is refused.
Enqueue ==
    /\ Defined
    /\ cpc = "idle"
    /\ enqueued < toEnqueue
    /\ LET decoder == enqueued + 1
           queueEmpty == mDecoderQueue = <<>>
       IN  /\ enqueued' = decoder
           /\ IF GetCurrentDecoderState(mActiveDecoders) = NULL /\ queueEmpty
              THEN /\ mRingBufferFormat' = decoderFormat[decoder]
                   /\ \/ /\ mConverter' = "valid"
                         /\ failuresLeft' = failuresLeft
                      \/ /\ failuresLeft > 0
                         /\ mConverter' = "null"
                         /\ failuresLeft' = failuresLeft - 1
                   /\ ring' = [i \in RingIndexes |-> Silence]
                   /\ mDecoderQueue' = Append(mDecoderQueue, decoder)
                   /\ Returns("true")
              ELSE IF ~formatsMatch(decoder)
              THEN /\ Returns("false")
                   /\ UNCHANGED <<mRingBufferFormat, mConverter, failuresLeft, ring,
                                  mDecoderQueue>>
              ELSE /\ mDecoderQueue' = Append(mDecoderQueue, decoder)
                   /\ Returns("true")
                   /\ UNCHANGED <<mRingBufferFormat, mConverter, failuresLeft, ring>>
    /\ pausedAt' = <<>>
    /\ UNCHANGED <<mIsPlaying, outputRunning, mFlags, mActiveDecoders, mFramesDecoded,
                   mFramesRendered, mFramesRenderedLastPass, states>>
    /\ UNCHANGED <<cpc, toEnqueue, seeksLeft, stopsLeft>>
    /\ UNCHANGED <<decoderVars, workerVars, renderVars, log, fetchVars, uaf>>
    /\ UNCHANGED <<attributeVars, changesLeft, hpc>>

\* The frames the caller seeks to: the first frame, and the end of the longest
\* decoder (beyond the end of a shorter one, whose seek then fails).
SeekTargets == {0, MaxLen}

\* A decoder that is taken to support seeking whatever it says.
SupportsSeeking_Always(d) == TRUE

\* currentDecoderState->mDecoder->SupportsSeeking() (line 603)
SupportsSeeking(d) == decoderSeekable[d]

\* AudioPlayer::SeekToFrame (lines 594-612).  The compare-and-swap of line
\* 606 expects the value it has just loaded, whatever that is.
SeekToFrame(frame) ==
    /\ Defined
    /\ cpc = "idle"
    /\ seeksLeft > 0
    /\ seeksLeft' = seeksLeft - 1
    /\ LET currentDecoderState == GetCurrentDecoderState(mActiveDecoders)
       IN  IF currentDecoderState = NULL
           THEN /\ Returns("false")
                /\ states' = states
           ELSE IF ~SupportsSeeking(currentDecoderState)
           THEN /\ Returns("false")
                /\ states' = states
           ELSE /\ Returns("true")
                /\ states' = [states EXCEPT ![currentDecoderState].mFrameToSeek = frame]
    /\ pausedAt' = <<>>
    /\ UNCHANGED <<mIsPlaying, outputRunning, mFlags, mDecoderQueue, mActiveDecoders,
                   mFramesDecoded, mFramesRendered, mFramesRenderedLastPass, ring>>
    /\ UNCHANGED <<cpc, enqueued, toEnqueue, stopsLeft>>
    /\ UNCHANGED <<decoderVars, workerVars, renderVars, log, fetchVars, uaf>>
    /\ UNCHANGED <<formatVars, attributeVars, failuresLeft, changesLeft, hpc>>

\* AudioPlayer::Stop (lines 483-493) on the caller's thread: Pause and
\* StopActiveDecoders ...
Stop ==
    /\ Defined
    /\ cpc = "idle"
    /\ stopsLeft > 0
    /\ stopsLeft' = stopsLeft - 1
    /\ PauseEffect
    /\ states' = StopActiveDecoders(states)
    /\ cpc' = "stopDecoded"
    /\ pausedAt' = <<>>
    /\ UNCHANGED <<mFlags, mDecoderQueue, mActiveDecoders, mFramesDecoded, mFramesRendered,
                   mFramesRenderedLastPass, ring>>
    /\ UNCHANGED <<enqueued, toEnqueue, seeksLeft>>
    /\ UNCHANGED <<decoderVars, workerVars, renderVars, log, fetchVars, uaf>>
    /\ UNCHANGED <<formatVars, attributeVars, cResult, failuresLeft, changesLeft, hpc>>

\* ... mFramesDecoded = 0 (line 491) ...
StopDecoded ==
    /\ Defined
    /\ cpc = "stopDecoded"
    /\ mFramesDecoded' = 0
    /\ cpc' = "stopRendered"
    /\ UNCHANGED <<mIsPlaying, outputRunning, mFlags, mDecoderQueue, mActiveDecoders,
                   mFramesRendered, mFramesRenderedLastPass, ring, states>>
    /\ UNCHANGED <<enqueued, toEnqueue, seeksLeft, stopsLeft>>
    /\ UNCHANGED <<decoderVars, workerVars, renderVars, log, fetchVars, uaf>>
    /\ UNCHANGED controlVars

\* ... mFramesRendered = 0 (line 492).
StopRendered ==
    /\ Defined
    /\ cpc = "stopRendered"
    /\ mFramesRendered' = 0
    /\ cpc' = "idle"
    /\ UNCHANGED <<mIsPlaying, outputRunning, mFlags, mDecoderQueue, mActiveDecoders,
                   mFramesDecoded, mFramesRenderedLastPass, ring, states>>
    /\ UNCHANGED <<enqueued, toEnqueue, seeksLeft, stopsLeft>>
    /\ UNCHANGED <<decoderVars, workerVars, renderVars, log, fetchVars, uaf>>
    /\ UNCHANGED controlVars

\* ------------------------------------------------------------------ collector thread
\* One pass of the collector's loop body over a slot (lines 1731-1742).  Only
\* this thread empties slots, so the load, the test and the compare-and-swap
\* are one step.
Collect ==
    /\ Defined
    /\ \E i \in Slots :
        /\ mActiveDecoders[i] # NULL
        /\ states[mActiveDecoders[i]].mReadyForCollection
        /\ mActiveDecoders' = [mActiveDecoders EXCEPT ![i] = NULL]
        /\ states' = [states EXCEPT ![mActiveDecoders[i]].alloc = "freed"]
    /\ UNCHANGED <<mIsPlaying, outputRunning, mFlags, mDecoderQueue, mFramesDecoded,
                   mFramesRendered, mFramesRenderedLastPass, ring>>
    /\ UNCHANGED <<decoderVars, workerVars, renderVars, callerVars, log, fetchVars, uaf>>
    /\ UNCHANGED controlVars

\* ------------------------------------------------------------------ property listener
\* What the handler's steps leave alone.
HandlerKeeps ==
    /\ UNCHANGED <<mIsPlaying, mDecoderQueue, mActiveDecoders, mFramesDecoded, mFramesRendered,
                   mFramesRenderedLastPass, ring, states>>
    /\ UNCHANGED <<decoderVars, workerVars, renderVars, callerVars, log, fetchVars, uaf>>
    /\ UNCHANGED <<mRingBufferFormat, attributeVars, callVars>>

\* AudioObjectPropertyChanged for kAudioStreamPropertyVirtualFormat (lines
\* 1441-1472), on the thread of the property listener: StopOutput (line 1444) ...
HandlerStopOutput ==
    /\ Defined
    /\ hpc = "idle"
    /\ changesLeft > 0
    /\ changesLeft' = changesLeft - 1
    /\ outputRunning' = FALSE
    /\ hpc' = "setFlag"
    /\ HandlerKeeps
    /\ UNCHANGED <<mFlags, mConverter, failuresLeft>>

\* ... the flag is set (line 1448) and the new virtual format is read ...
HandlerSetFlag ==
    /\ Defined
    /\ hpc = "setFlag"
    /\ mFlags' = mFlags \cup {"VirtualFormatChanged"}
    /\ hpc' = "dispose"
    /\ HandlerKeeps
    /\ UNCHANGED <<outputRunning, mConverter, failuresLeft, changesLeft>>

\* ... CreateConverterAndConversionBuffer (line 1462) disposes of the old
\* converter and frees the conversion buffer (lines 2056-2066) ...
HandlerDispose ==
    /\ Defined
    /\ hpc = "dispose"
    /\ mConverter' = "null"
    /\ hpc' = "create"
    /\ HandlerKeeps
    /\ UNCHANGED <<outputRunning, mFlags, failuresLeft, changesLeft>>

\* ... and creates the new ones, or fails (lines 2069-2129) ...
HandlerCreate ==
    /\ Defined
    /\ hpc = "create"
    /\ \/ /\ mConverter' = "valid"
          /\ failuresLeft' = failuresLeft
       \/ /\ failuresLeft > 0
          /\ mConverter' = "null"
          /\ failuresLeft' = failuresLeft - 1
    /\ hpc' = "clearFlag"
    /\ HandlerKeeps
    /\ UNCHANGED <<outputRunning, mFlags, changesLeft>>

\* ... the flag is cleared (line 1466) ...
HandlerClearFlag ==
    /\ Defined
    /\ hpc = "clearFlag"
    /\ mFlags' = mFlags \ {"VirtualFormatChanged"}
    /\ hpc' = "restart"
    /\ HandlerKeeps
    /\ UNCHANGED <<outputRunning, mConverter, failuresLeft, changesLeft>>

\* ... and output is started again when the player is playing (lines 1468-1469).
HandlerRestart ==
    /\ Defined
    /\ hpc = "restart"
    /\ outputRunning' = IF mIsPlaying THEN TRUE ELSE outputRunning
    /\ hpc' = "idle"
    /\ HandlerKeeps
    /\ UNCHANGED <<mFlags, mConverter, failuresLeft, changesLeft>>

\* ------------------------------------------------------------------ constructor
\* What the constructor releases or stops before it throws at a step
\* (lines 246-356; nothing at lines 375-382).
ReleasedOnFailure(step) ==
    CASE step = "decoderSemaphore" -> {"ringBuffer"}
      [] step = "collectorSemaphore" -> {"ringBuffer", "decoderSemaphore"}
      [] step = "mutex" -> {"ringBuffer", "decoderSemaphore", "collectorSemaphore"}
      [] step = "decoderThread" -> {"ringBuffer", "decoderSemaphore", "collectorSemaphore"}
      [] step = "collectorThread" ->
            {"decoderThread", "ringBuffer", "decoderSemaphore", "collectorSemaphore"}
      [] OTHER -> {}

\* One step of AudioPlayer::AudioPlayer (lines 237-383): it succeeds and the
\* constructor holds one resource more (the device query and OpenOutput add
\* none of those counted here), or it fails and the constructor throws.
ConstructorStep ==
    /\ ~ctorThrown
    /\ ctorStep < ConstructorDone
    /\ LET step == ConstructorSteps[ctorStep]
       IN  \/ /\ acquired' = acquired \cup ({step} \cap Resources)
              /\ ctorStep' = ctorStep + 1
              /\ ctorThrown' = FALSE
           \/ /\ step # "ringBuffer"
              /\ acquired' = acquired \ ReleasedOnFailure(step)
              /\ ctorThrown' = TRUE
              /\ ctorStep' = ctorStep
    /\ UNCHANGED <<playerVars, decoderVars, workerVars, renderVars, callerVars, log,
                   fetchVars, uaf>>
    /\ UNCHANGED <<formatVars, decoderFormat, decoderSeekable, observed, callVars,
                   failuresLeft, changesLeft, hpc>>

\* ------------------------------------------------------------------ specification
Next ==
    \/ WorkerDequeue \/ WorkerActivate \/ WorkerWhile \/ WorkerFor
    \/ WorkerSeek \/ WorkerSeekFailed \/ WorkerSeekLoad \/ WorkerSeekSwap \/ WorkerDecode
    \/ RenderBegin \/ RenderFill \/ RenderFillDone \/ RenderLoad \/ RenderSelect
    \/ RenderAttribute \/ RenderStop \/ RenderStopDecoded \/ RenderStopRendered
    \/ Play \/ PlayAssign \/ Pause \/ Enqueue
    \/ (\E frame \in SeekTargets : SeekToFrame(frame))
    \/ Stop \/ StopDecoded \/ StopRendered
    \/ Collect

Spec == Init /\ [][Next]_vars

\* Two decoders enqueued one after the other and played; the caller neither
\* seeks nor stops.
InitGapless ==
    /\ Constructed
    /\ DecodersOfLengths({0, 1, RING_BUFFER_WRITE_CHUNK_SIZE_FRAMES + 1})
    /\ Undisturbed
    /\ observed = FALSE
    /\ toEnqueue = NumDecoders
    /\ seeksLeft = 0
    /\ stopsLeft = 0

\* Play() called once the decoders are enqueued
PlayWhenEnqueued == enqueued = toEnqueue /\ Play

NextGapless ==
    \/ WorkerDequeue \/ WorkerActivate \/ WorkerWhile \/ WorkerFor \/ WorkerDecode
    \/ RenderBegin \/ RenderFill \/ RenderFillDone \/ RenderLoad \/ RenderSelect
    \/ RenderAttribute \/ RenderStop \/ RenderStopDecoded \/ RenderStopRendered
    \/ PlayWhenEnqueued \/ PlayAssign \/ Pause \/ Enqueue
    \/ Collect

SpecGapless == InitGapless /\ [][NextGapless]_vars

\* One decoder of one frame or of MaxLen frames that reports its length and
\* may or may not support seeking; the caller may seek twice and calls
\* neither Pause() nor Stop(); what its calls return is recorded.
InitSeeks ==
    /\ Constructed
    /\ DecodersOfLengths({0, 1, MaxLen})
    /\ decoderLen[1] # 0
    /\ decoderTotal = decoderLen
    /\ \A d \in Decoders : d > 1 => decoderLen[d] = 0
    /\ decoderFormat = [d \in Decoders |-> 1]
    /\ decoderSeekable \in [Decoders -> BOOLEAN]
    /\ \A d \in Decoders : d > 1 => decoderSeekable[d]
    /\ observed = TRUE
    /\ failuresLeft = 0
    /\ changesLeft = 0
    /\ toEnqueue = 1
    /\ seeksLeft = 2
    /\ stopsLeft = 0

NextSeeks ==
    \/ WorkerDequeue \/ WorkerActivate \/ WorkerWhile \/ WorkerFor
    \/ WorkerSeek \/ WorkerSeekFailed \/ WorkerSeekLoad \/ WorkerSeekSwap \/ WorkerDecode
    \/ RenderBegin \/ RenderFill \/ RenderFillDone \/ RenderLoad \/ RenderSelect
    \/ RenderAttribute \/ RenderStop \/ RenderStopDecoded \/ RenderStopRendered
    \/ Play \/ PlayAssign \/ Enqueue
    \/ (\E frame \in SeekTargets : SeekToFrame(frame))
    \/ Collect

SpecSeeks == InitSeeks /\ [][NextSeeks]_vars

\* One decoder of one frame or of MaxLen frames; the caller may pause and
\* play as often as it likes and seek once, and never calls Stop(); what was
\* rendered when it paused is recorded.
InitPause ==
    /\ Constructed
    /\ DecodersOfLengths({0, 1, MaxLen})
    /\ decoderLen[1] # 0
    /\ \A d \in Decoders : d > 1 => decoderLen[d] = 0 /\ decoderTotal[d] = 0
    /\ Undisturbed
    /\ observed = TRUE
    /\ toEnqueue = 1
    /\ seeksLeft = 1
    /\ stopsLeft = 0

NextPause == NextSeeks \/ Pause

SpecPause == InitPause /\ [][NextPause]_vars

\* Two decoders of one format: the caller enqueues the first, calls Stop()
\* once and enqueues the second when Stop() has returned; Play() at any time.
InitRestart ==
    /\ Constructed
    /\ DecodersOfLengths({0, 1, MaxLen})
    /\ \A d \in Decoders : decoderLen[d] # 0 /\ decoderTotal[d] = decoderLen[d]
    /\ Undisturbed
    /\ observed = FALSE
    /\ toEnqueue = NumDecoders
    /\ seeksLeft = 0
    /\ stopsLeft = 1

\* Stop() called after the first Enqueue, the second Enqueue after Stop()
EnqueueAroundStop == (enqueued = 0 \/ stopsLeft = 0) /\ Enqueue
StopWhenEnqueued == enqueued = 1 /\ Stop

\* Stop() has returned
Stopped == stopsLeft = 0 /\ cpc \notin {"stopDecoded", "stopRendered"}

\* Stop() has returned and the second decoder was enqueued after it
Restarted == Stopped /\ enqueued = NumDecoders

NextRestart ==
    \/ WorkerDequeue \/ WorkerActivate \/ WorkerWhile \/ WorkerFor \/ WorkerDecode
    \/ RenderBegin \/ RenderFill \/ RenderFillDone \/ RenderLoad \/ RenderSelect
    \/ RenderAttribute \/ RenderStop \/ RenderStopDecoded \/ RenderStopRendered
    \/ Play \/ PlayAssign \/ EnqueueAroundStop
    \/ StopWhenEnqueued \/ StopDecoded \/ StopRendered
    \/ Collect

SpecRestart == InitRestart /\ [][NextRestart]_vars

\* Two decoders, the first of one frame or of a chunk and a frame, the second
\* of one frame and of the first's format or of another; the creation of a
\* converter may fail once.  The caller enqueues both and plays, and what its
\* calls return is recorded.
InitFormats ==
    /\ Constructed
    /\ DecodersOfLengths({1, RING_BUFFER_WRITE_CHUNK_SIZE_FRAMES + 1})
    /\ decoderTotal = decoderLen
    /\ \A d \in Decoders : d > 1 => decoderLen[d] = 1
    /\ decoderFormat \in [Decoders -> {1, 2}]
    /\ decoderFormat[1] = 1
    /\ decoderSeekable = [d \in Decoders |-> TRUE]
    /\ observed = TRUE
    /\ failuresLeft \in {0, 1}
    /\ changesLeft = 0
    /\ toEnqueue = NumDecoders
    /\ seeksLeft = 0
    /\ stopsLeft = 0

NextFormats ==
    \/ WorkerDequeue \/ WorkerActivate \/ WorkerWhile \/ WorkerFor \/ WorkerDecode
    \/ RenderBegin \/ RenderFill \/ RenderFillDone \/ RenderLoad \/ RenderSelect
    \/ RenderAttribute \/ RenderStop \/ RenderStopDecoded \/ RenderStopRendered
    \/ Play \/ PlayAssign \/ Enqueue
    \/ Collect

SpecFormats == InitFormats /\ [][NextFormats]_vars

\* One decoder of MaxLen frames that reports its length and supports
\* seeking: the caller enqueues it, plays it and, while the player is playing,
\* seeks once to the decoder's total; what its calls return is recorded.
InitSeekEnd ==
    /\ Constructed
    /\ DecodersOfLengths({0, MaxLen})
    /\ decoderLen[1] = MaxLen
    /\ decoderTotal = decoderLen
    /\ \A d \in Decoders : d > 1 => decoderLen[d] = 0
    /\ Undisturbed
    /\ observed = TRUE
    /\ toEnqueue = 1
    /\ seeksLeft = 1
    /\ stopsLeft = 0

\* SeekToFrame(total frames of the first decoder) while IsPlaying()
SeekToEnd == mIsPlaying /\ enqueued = 1 /\ SeekToFrame(decoderTotal[1])

NextSeekEnd ==
    \/ WorkerDequeue \/ WorkerActivate \/ WorkerWhile \/ WorkerFor
    \/ WorkerSeek \/ WorkerSeekLoad \/ WorkerSeekSwap \/ WorkerDecode
    \/ RenderBegin \/ RenderFill \/ RenderFillDone \/ RenderLoad \/ RenderSelect
    \/ RenderAttribute \/ RenderStop \/ RenderStopDecoded \/ RenderStopRendered
    \/ PlayWhenEnqueued \/ PlayAssign \/ Enqueue \/ SeekToEnd
    \/ Collect

SpecSeekEnd == InitSeekEnd /\ [][NextSeekEnd]_vars

\* One decoder of one frame or of MaxLen frames; the stream's virtual format
\* changes once; the caller enqueues, plays and pauses.
InitFormatChange ==
    /\ Constructed
    /\ DecodersOfLengths({0, 1, MaxLen})
    /\ decoderLen[1] # 0
    /\ decoderTotal = decoderLen
    /\ \A d \in Decoders : d > 1 => decoderLen[d] = 0
    /\ decoderFormat = [d \in Decoders |-> 1]
    /\ decoderSeekable = [d \in Decoders |-> TRUE]
    /\ observed = FALSE
    /\ failuresLeft = 0
    /\ changesLeft = 1
    /\ toEnqueue = 1
    /\ seeksLeft = 0
    /\ stopsLeft = 0

NextFormatChange ==
    \/ WorkerDequeue \/ WorkerActivate \/ WorkerWhile \/ WorkerFor \/ WorkerDecode
    \/ RenderBegin \/ RenderFill \/ RenderFillDone \/ RenderLoad \/ RenderSelect
    \/ RenderAttribute \/ RenderStop \/ RenderStopDecoded \/ RenderStopRendered
    \/ RenderEnter \/ RenderStopOutput
    \/ Play \/ PlayAssign \/ Pause \/ Enqueue
    \/ HandlerStopOutput \/ HandlerSetFlag \/ HandlerDispose \/ HandlerCreate
    \/ HandlerClearFlag \/ HandlerRestart
    \/ Collect

SpecFormatChange == InitFormatChange /\ [][NextFormatChange]_vars

\* One decoder of one frame or of MaxLen frames: the caller enqueues it and
\* plays it, and the stream's virtual format changes once while the player is
\* playing; the caller calls nothing after that.
InitChangeWhilePlaying == InitFormatChange

\* Play() before the format changes
PlayBeforeChange == changesLeft > 0 /\ hpc = "idle" /\ Play

\* The property listener is called while IsPlaying() is true and the caller
\* is in no call.
HandlerWhilePlaying == mIsPlaying /\ cpc = "idle" /\ enqueued = toEnqueue /\ HandlerStopOutput

NextChangeWhilePlaying ==
    \/ WorkerDequeue \/ WorkerActivate \/ WorkerWhile \/ WorkerFor \/ WorkerDecode
    \/ RenderBegin \/ RenderFill \/ RenderFillDone \/ RenderLoad \/ RenderSelect
    \/ RenderAttribute \/ RenderStop \/ RenderStopDecoded \/ RenderStopRendered
    \/ RenderEnter \/ RenderStopOutput
    \/ PlayBeforeChange \/ PlayAssign \/ Enqueue
    \/ HandlerWhilePlaying \/ HandlerSetFlag \/ HandlerDispose \/ HandlerCreate
    \/ HandlerClearFlag \/ HandlerRestart
    \/ Collect

SpecChangeWhilePlaying == InitChangeWhilePlaying /\ [][NextChangeWhilePlaying]_vars

\* The constructor runs, and may fail at any step; a player that was
\* constructed is used as in SpecSeekEnd.
InitConstructor ==
    /\ Members
    /\ ctorStep = 1
    /\ ctorThrown = FALSE
    /\ acquired = {}
    /\ DecodersOfLengths({0, MaxLen})
    /\ decoderLen[1] = MaxLen
    /\ decoderTotal = decoderLen
    /\ \A d \in Decoders : d > 1 => decoderLen[d] = 0
    /\ Undisturbed
    /\ observed = FALSE
    /\ toEnqueue = 1
    /\ seeksLeft = 1
    /\ stopsLeft = 0

NextConstructor ==
    \/ ConstructorStep
    \/ (ctorStep = ConstructorDone /\ NextSeekEnd)

SpecConstructor == InitConstructor /\ [][NextConstructor]_vars

\* An array of active decoders with one slot fewer than the decoders the
\* caller enqueues: the first decoder of at most one frame, the second of one
\* frame or of a chunk and a frame; the caller enqueues both and plays.
InitSlots ==
    /\ MembersWith(NumDecoders - 1)
    /\ ctorStep = ConstructorDone
    /\ ctorThrown = FALSE
    /\ acquired = Resources
    /\ DecodersOfLengths({0, 1, RING_BUFFER_WRITE_CHUNK_SIZE_FRAMES + 1})
    /\ decoderTotal = decoderLen
    /\ decoderLen[1] <= 1
    /\ \A d \in Decoders : d > 1 => decoderLen[d] > 0
    /\ Undisturbed
    /\ observed = FALSE
    /\ toEnqueue = NumDecoders
    /\ seeksLeft = 0
    /\ stopsLeft = 0

NextSlots ==
    \/ WorkerDequeue \/ WorkerActivate \/ WorkerWhile \/ WorkerFor \/ WorkerDecode
    \/ RenderBegin \/ RenderFill \/ RenderFillDone \/ RenderLoad \/ RenderSelect
    \/ RenderAttribute \/ RenderStop \/ RenderStopDecoded \/ RenderStopRendered
    \/ Play \/ PlayAssign \/ Enqueue
    \/ Collect

SpecSlots == InitSlots /\ [][NextSlots]_vars

\* One decoder of one frame or of MaxLen frames; the caller enqueues it,
\* plays and seeks once; the passes of the distribution loop are taken in two
\* steps.
InitSeekAttribute ==
    /\ Constructed
    /\ DecodersOfLengths({0, 1, MaxLen})
    /\ decoderLen[1] # 0
    /\ decoderTotal = decoderLen
    /\ \A d \in Decoders : d > 1 => decoderLen[d] = 0
    /\ Undisturbed
    /\ observed = FALSE
    /\ toEnqueue = 1
    /\ seeksLeft = 1
    /\ stopsLeft = 0

NextSeekAttribute ==
    \/ WorkerDequeue \/ WorkerActivate \/ WorkerWhile \/ WorkerFor
    \/ WorkerSeek \/ WorkerSeekFailed \/ WorkerSeekLoad \/ WorkerSeekSwap \/ WorkerDecode
    \/ RenderBegin \/ RenderFill \/ RenderFillDone \/ RenderLoad \/ RenderSelect
    \/ RenderAttributeRead \/ RenderAttributeAdd
    \/ RenderStop \/ RenderStopDecoded \/ RenderStopRendered
    \/ Play \/ PlayAssign \/ Enqueue
    \/ (\E frame \in SeekTargets : SeekToFrame(frame))
    \/ Collect

SpecSeekAttribute == InitSeekAttribute /\ [][NextSeekAttribute]_vars

\* ------------------------------------------------------------------ observations
\* how often event e is in a decoder's log
Count(lg, e) == Cardinality({i \in 1 .. Len(lg) : lg[i] = e})

\* every e in the log has an earlier f
EachPreceded(lg, e, f) ==
    \A i \in 1 .. Len(lg) : lg[i] = e => \E j \in 1 .. (i - 1) : lg[j] = f

\* ------------------------------------------------------------------ properties
\* C1: in every reachable state 0 <= frames_rendered <= frames_decoded.
C1_CountersOrdered ==
    /\ 0 <= mFramesRendered
    /\ mFramesRendered <= mFramesDecoded

\* C2: no step decreases frames_decoded or frames_rendered.
C2_CountersNeverDecrease ==
    [][mFramesDecoded' >= mFramesDecoded /\ mFramesRendered' >= mFramesRendered]_vars

\* C2, as the code has it: a step that decreases frames_decoded or
\* frames_rendered is one of Stop()'s two resets to 0 (called by the caller or
\* by Render) or one of the two counter updates of the worker servicing a
\* seek; every other step leaves both counters where they were or advances
\* them.
C2_DecreaseOnlyByStopOrSeek ==
    [][(mFramesDecoded' < mFramesDecoded \/ mFramesRendered' < mFramesRendered)
        => \/ StopDecoded \/ StopRendered
           \/ RenderStopDecoded \/ RenderStopRendered
           \/ WorkerSeek \/ WorkerSeekSwap]_vars

\* Render is in a pass that fetched frames beyond frame 0 while decoded frames
\* remain unread: both counters have advanced.
C2_Witness ==
    /\ rpc = "fill"
    /\ rPulls = 1
    /\ mFramesRendered >= 2
    /\ mFramesDecoded > mFramesRendered

\* C3: in every reachable state frames_decoded - frames_rendered is at most
\* the capacity of the ring buffer.
C3_WindowWithinCapacity ==
    mFramesDecoded - mFramesRendered <= RING_BUFFER_SIZE_FRAMES

\* C4: Render never dereferences a DecoderStateData the collector destroyed.
C4_RenderUsesNoDestroyedState ==
    "render" \notin uaf

\* C5: rendering-started fires exactly once for a decoder state: never
\* twice, and once by the time rendering-finished has fired.
C5_RenderingStartedOnce ==
    \A d \in Decoders :
        /\ Count(log[d], "renderingStarted") <= 1
        /\ Count(log[d], "renderingFinished") >= 1 => Count(log[d], "renderingStarted") = 1

\* C6: rendering-finished has fired exactly once for every decoder state
\* that was destroyed.
C6_RenderingFinishedOnce ==
    \A d \in Decoders :
        /\ Count(log[d], "renderingFinished") <= 1
        /\ states[d].alloc = "freed" => Count(log[d], "renderingFinished") = 1

\* C7: decoding-finished precedes rendering-finished.
C7_DecodingFinishedFirst ==
    \A d \in Decoders : EachPreceded(log[d], "renderingFinished", "decodingFinished")

\* C8: the callbacks of a decoder fire in the order decoding-started,
\* rendering-started, decoding-finished, rendering-finished.
C8_CallbackOrder ==
    \A d \in Decoders :
        /\ EachPreceded(log[d], "renderingStarted", "decodingStarted")
        /\ EachPreceded(log[d], "decodingFinished", "renderingStarted")
        /\ EachPreceded(log[d], "renderingFinished", "decodingFinished")

\* C9: decoding-started fires exactly once for a decoder, before its first
\* read, and in enqueue order across decoders.
C9_DecodingStartedOnceBeforeRead ==
    /\ \A d \in Decoders :
        /\ Count(log[d], "decodingStarted") <= 1
        /\ EachPreceded(log[d], "read", "decodingStarted")
    /\ \A d, e \in Decoders :
        d < e /\ Count(log[e], "decodingStarted") >= 1 => Count(log[d], "decodingStarted") >= 1

\* C10: the frames Render fetches are the frames of the first decoder in
\* order, then those of the second, each once.
C10_Gapless == fetchOK

\* C11: a render callback that finds the ring buffer empty and no current
\* decoder state has stopped output: after the Stop() it calls (the only step
\* of the callback that acts on the device) mIsPlaying is false and the
\* device no longer calls the IOProc.
C11_StoppedByCallback == [][RenderStop => (~mIsPlaying' /\ ~outputRunning')]_vars

\* C12: Pause() followed by Play() leaves the global frames_rendered
\* unchanged: when Play() returns it has the value it had when Pause() was
\* called.
C12_PauseThenPlay ==
    [][(PlayAssign /\ pausedAt # <<>>) => mFramesRendered' = pausedAt[1]]_vars

\* C12, as the code has it: neither Pause() nor Play() modifies
\* frames_rendered, and while the device is stopped the only steps that
\* change it are the worker finishing a seek, a render pass that was already
\* in flight, and the reset of a Stop().
C12_PausedKeepsRendered ==
    [][/\ (Pause \/ Play \/ PlayAssign) => mFramesRendered' = mFramesRendered
       /\ (~outputRunning /\ mFramesRendered' # mFramesRendered)
            => \/ WorkerSeekSwap
               \/ RenderFill \/ RenderStopRendered
               \/ StopRendered]_vars

\* Play() has started the device after a Pause() that was called with frames
\* rendered, and frames_rendered is what it was.
C12_Witness ==
    /\ cpc = "playAssign"
    /\ pausedAt # <<>>
    /\ pausedAt[1] > 0
    /\ mFramesRendered = pausedAt[1]

\* C13: after Stop() followed by Enqueue(A) the state of A is stamped with
\* frames_decoded = 0, and no frame of the decoder that was active before
\* Stop() is fetched once Stop() has returned.
C13_RestartAtZero ==
    [][/\ (WorkerActivate /\ wDecoder = NumDecoders)
            => (mFramesDecoded = 0 /\ states'[NumDecoders].mTimeStamp = 0)
       /\ (RenderFill /\ Restarted)
            => \A k \in 1 .. (mFramesRendered' - mFramesRendered) :
                    Fetch(ring, k, mFramesRendered)[k][1] # 1]_vars

\* C14: when Stop() returns output is stopped, every state in a slot of
\* mActiveDecoders has mKeepDecoding false and mReadyForCollection true, and
\* frames_decoded = frames_rendered = 0.
C14_StopPostcondition ==
    [][StopRendered =>
        /\ ~mIsPlaying' /\ ~outputRunning'
        /\ \A i \in Slots :
                mActiveDecoders'[i] # NULL
                    => /\ ~states'[mActiveDecoders'[i]].mKeepDecoding
                       /\ states'[mActiveDecoders'[i]].mReadyForCollection
        /\ mFramesDecoded' = 0 /\ mFramesRendered' = 0]_vars

C16_SetupFailureRefused ==
    [][(/\ Enqueue
        /\ GetCurrentDecoderState(mActiveDecoders) = NULL /\ mDecoderQueue = <<>>
        /\ mConverter' = "null")
        => /\ cResult' = "false"
           /\ mDecoderQueue' = mDecoderQueue]_vars

C18_PendingSeekKept ==
    [][(/\ \E frame \in SeekTargets : SeekToFrame(frame)
        /\ GetCurrentDecoderState(mActiveDecoders) # NULL
        /\ states[GetCurrentDecoderState(mActiveDecoders)].mFrameToSeek # -1)
        => /\ cResult' = "false"
           /\ states' = states]_vars

\* C19: while playing, an accepted seek that lands on the decoder's total
\* frames leads to rendering-finished for that decoder: when its state has
\* been marked and its slot reclaimed, the callback has fired.
C19_SeekToEndFinishes ==
    (/\ seeksLeft = 0 /\ cResult = "true"
     /\ states[1].mFramesRendered = decoderTotal[1]
     /\ states[1].alloc = "freed"
     /\ \A i \in Slots : mActiveDecoders[i] # 1)
        => Count(log[1], "renderingFinished") >= 1

\* C20: no render pass is inside the converter (fetching from the ring
\* buffer) while the virtual-format-changed flag is set or while the property
\* listener is between disposing of the old converter and having the new one.
C20_NoConverterUseDuringRebuild ==
    rpc = "fill" => ("VirtualFormatChanged" \notin mFlags /\ hpc # "create")

\* C21: a virtual-format change reported while the player is playing ends
\* with the flag clear and output running again: once the handler has
\* returned and no render callback is still stopping output, a player whose
\* mIsPlaying is true has its device started.
C21_ResumesAfterFormatChange ==
    (/\ changesLeft = 0 /\ hpc = "idle"
     /\ rpc # "stopOutput"
     /\ cpc = "idle" /\ mIsPlaying)
        => (outputRunning /\ "VirtualFormatChanged" \notin mFlags)

\* C22: the ring buffer's format and the converter are written only while
\* output is stopped or the virtual-format-changed flag is set.
C22_FormatWrittenWhenStopped ==
    [][(mRingBufferFormat' # mRingBufferFormat \/ mConverter' # mConverter)
        => (~outputRunning \/ "VirtualFormatChanged" \in mFlags)]_vars

\* C23: when the constructor throws, every resource it acquired before the
\* failing step has been released or stopped.
C23_NothingHeldAfterThrow == ctorThrown => acquired = {}

\* C24: when the worker has serviced a successful seek and clears the seeking
\* flag, the global mFramesRendered equals mFramesDecoded, the state's
\* mFramesRendered is the frame the decoder landed on and no request is pending.
C24_SeekLeavesCountersConsistent ==
    [][WorkerSeekSwap => (/\ mFramesRendered' = mFramesDecoded'
                          /\ states'[wDecoder].mFramesRendered = decoderPos[wDecoder])]_vars

C26_NoRenderingWhileSeeking ==
    [][(RenderFill \/ RenderAttribute) => "IsSeeking" \notin mFlags]_vars

\* C27: while mKeepDecoding is true a pass of the worker through its decode
\* loop services a pending seek whatever the free space of the ring buffer is;
\* here for the case the claim names, a player paused by Pause().
C27_PendingSeekServicedOnNextPass ==
    [][(/\ WorkerWhile \/ WorkerFor
        /\ states[wDecoder].mKeepDecoding
        /\ states[wDecoder].mFrameToSeek # -1
        /\ ~mIsPlaying /\ pausedAt # <<>>)
            => wpc' = "seek"]_vars

\* C28: once the worker wakes after Stop() has set mKeepDecoding to false on
\* the state it is decoding, its test of mKeepDecoding is a read of a live
\* state and ends the decoding: the worker leaves the decoder, with no further
\* read from it and no further store.  (A state with mKeepDecoding false
\* whose decoder has frames left was stopped by Stop(): the worker itself
\* clears the flag only at the end of the stream.)
C28_StopObservedAtNextWake ==
    [][(/\ WorkerWhile
        /\ ~states[wDecoder].mKeepDecoding
        /\ decoderPos[wDecoder] < decoderLen[wDecoder])
            => /\ uaf' = {}
               /\ wpc' = "idle" /\ wDecoder' = NULL
               /\ decoderPos' = decoderPos /\ ring' = ring]_vars

\* C29: a decoder whose state found no empty slot in mActiveDecoders is not
\* decoded: the worker reads nothing from it, stores nothing for it and does
\* not advance mFramesDecoded.  (A live state that is in no slot was never
\* inserted: the collector empties a slot and deletes its state in one step.)
C29_NotInsertedNotDecoded ==
    [][WorkerDecode => \/ \E i \in Slots : mActiveDecoders[i] = wDecoder
                       \/ states[wDecoder].alloc # "live"]_vars

\* C30: no two states in the slots of mActiveDecoders have the same time
\* stamp and no state is in two slots.
C30_UniqueTimeStamps ==
    \A i, j \in Slots :
        (i # j /\ mActiveDecoders[i] # NULL /\ mActiveDecoders[j] # NULL)
            => /\ mActiveDecoders[i] # mActiveDecoders[j]
               /\ states[mActiveDecoders[i]].mTimeStamp # states[mActiveDecoders[j]].mTimeStamp

\* C31: when the worker inserts a decoder state, its time stamp is strictly
\* greater than time stamp + total frames of every state that is already in a
\* slot of mActiveDecoders.
C31_TimeStampBeyondPreceding ==
    [][WorkerActivate =>
        \A i \in Slots :
            (mActiveDecoders[i] # NULL /\ mActiveDecoders[i] # wDecoder)
                => states'[wDecoder].mTimeStamp >
                       states[mActiveDecoders[i]].mTimeStamp
                           + states[mActiveDecoders[i]].mTotalFrames]_vars

\* C32: GetCurrentDecoderState returns the state of the smallest time stamp
\* among the states in the slots that are not ready for collection and not
\* complete (mFramesRendered >= mTotalFrames), and NULL exactly when there is
\* no such state.
C32_CurrentIsSmallestIncomplete ==
    LET cand == {i \in Slots :
                    /\ mActiveDecoders[i] # NULL
                    /\ ~states[mActiveDecoders[i]].mReadyForCollection
                    /\ states[mActiveDecoders[i]].mFramesRendered
                            < states[mActiveDecoders[i]].mTotalFrames}
        current == GetCurrentDecoderState(mActiveDecoders)
    IN  IF cand = {}
        THEN current = NULL
        ELSE /\ \E i \in cand : mActiveDecoders[i] = current
             /\ \A j \in cand :
                    states[current].mTimeStamp <= states[mActiveDecoders[j]].mTimeStamp

\* C33: in a pass of the distribution loop a decoder state receives at most
\* the part of the frames rendered in the pass that is not yet attributed.
C33_AttributedWithinTally ==
    [][RenderAttribute =>
        states'[rState].mFramesRendered - states[rState].mFramesRendered <= rRemaining]_vars

\* C34: every decoder that is in the queue, that the worker is activating or
\* decoding, or whose state is in a slot and neither ready for collection nor
\* rendered to its end, has the format of the ring buffer.
C34_AcceptedDecodersHaveRingFormat ==
    \A d \in Decoders :
        (\/ \E k \in 1 .. Len(mDecoderQueue) : mDecoderQueue[k] = d
         \/ wDecoder = d
         \/ \E i \in Slots :
                /\ mActiveDecoders[i] = d
                /\ ~states[d].mReadyForCollection
                /\ states[d].mFramesRendered < states[d].mTotalFrames)
            => decoderFormat[d] = mRingBufferFormat

\* C35: every store of the worker is at the absolute frame index that
\* mFramesDecoded holds: startingFrameNumber + startTime = mFramesDecoded.
C35_StoreAtFramesDecoded ==
    [][(WorkerDecode /\ ring' # ring)
            => decoderPos[wDecoder] + wStartTime = mFramesDecoded]_vars

\* C36: the Stop() of a render callback that found the ring buffer empty does
\* not run while a decoder that Enqueue accepted is still in the queue or has
\* been removed from it by the worker and is not yet in a slot.
C36_NoAutoStopBeforeActivation ==
    [][(RenderStop \/ RenderStopDecoded \/ RenderStopRendered)
            => (mDecoderQueue = <<>> /\ wpc # "activate")]_vars

\* C37: when the collector deletes a decoder state, the worker has left that
\* state's decode loop.
C37_CollectedAfterWorkerLeft ==
    [][Collect => \A i \in Slots :
                    (mActiveDecoders[i] # NULL /\ mActiveDecoders'[i] = NULL)
                        => mActiveDecoders[i] # wDecoder]_vars

\* ------------------------------------------------------------------ a second request during a seek
\* One seekable decoder of MaxLen frames and two calls of SeekToFrame; the
\* worker's seek is taken in its two steps.
InitSeekLate ==
    /\ Constructed
    /\ DecodersOfLengths({0, MaxLen})
    /\ decoderLen[1] = MaxLen
    /\ decoderTotal = decoderLen
    /\ \A d \in Decoders : d > 1 => decoderLen[d] = 0
    /\ decoderFormat = [d \in Decoders |-> 1]
    /\ decoderSeekable = [d \in Decoders |-> TRUE]
    /\ observed = FALSE
    /\ failuresLeft = 0
    /\ changesLeft = 0
    /\ toEnqueue = 1
    /\ seeksLeft = 2
    /\ stopsLeft = 0

NextSeekLate ==
    \/ WorkerDequeue \/ WorkerActivate \/ WorkerWhile \/ WorkerFor
    \/ WorkerSeekCall \/ WorkerSeekClear \/ WorkerSeekLoad \/ WorkerSeekSwap \/ WorkerDecode
    \/ RenderBegin \/ RenderFill \/ RenderFillDone \/ RenderLoad \/ RenderSelect
    \/ RenderAttribute \/ RenderStop \/ RenderStopDecoded \/ RenderStopRendered
    \/ Play \/ PlayAssign \/ Enqueue
    \/ (\E frame \in SeekTargets : SeekToFrame(frame))
    \/ Collect

SpecSeekLate == InitSeekLate /\ [][NextSeekLate]_vars

\* ------------------------------------------------------------------ C38
\* A seek request is read only by the worker, inside the decode loop of the
\* state that holds it (lines 1623-1633).  WorkerLeft(d): the state of d
\* holds a request and the worker is no longer with d.
WorkerLeft(d) ==
    /\ states[d].alloc # "none"
    /\ states[d].mFrameToSeek # -1
    /\ wDecoder # d

\* The worker takes each decoder once, so a request it left behind is never
\* looked at again: it stays until the caller replaces it by another one,
\* which is left behind as well.
AbandonedRequestStays ==
    [][\A d \in Decoders : WorkerLeft(d) => WorkerLeft(d)']_vars

\* A request left behind in a state that was neither stopped nor rendered to
\* its end.
Abandoned(d) ==
    /\ WorkerLeft(d)
    /\ states[d].alloc = "live"
    /\ ~states[d].mReadyForCollection

\* C38: every seek request that SeekToFrame accepted is serviced -- the
\* request a state holds is one its worker will still come to, so no state
\* holds a request after the worker has left its decode loop (in particular
\* a request accepted after the decoder reached the end of its stream while
\* it is still being rendered).
C38_AcceptedSeekIsServiced ==
    \A d \in Decoders : ~Abandoned(d)

\* The request the worker clears is the one it handed to the decoder: a
\* request accepted between the decoder's seek and the clearing is not
\* wiped unserviced.
ClearedRequestWasServiced ==
    [][WorkerSeekClear =>
          (SeekSucceeded(wNewFrame) => states[wDecoder].mFrameToSeek = wNewFrame)]_vars

\* ------------------------------------------------------------------ C39
\* Playing a list through, under fair scheduling: the decoder thread and the
\* collector wake on their semaphores or on the timeout of their waits, the
\* device calls the IOProc while it is started, and the caller enqueues its
\* decoders and calls Play().
InitPlaythrough ==
    /\ Constructed
    /\ DecodersOfLengths({0, RING_BUFFER_WRITE_CHUNK_SIZE_FRAMES})
    /\ Undisturbed
    /\ observed = FALSE
    /\ toEnqueue = NumDecoders
    /\ seeksLeft = 0
    /\ stopsLeft = 0

WorkerSteps ==
    WorkerDequeue \/ WorkerActivate \/ WorkerWhile \/ WorkerFor \/ WorkerDecode

RenderSteps ==
    \/ RenderBegin \/ RenderFill \/ RenderFillDone \/ RenderLoad \/ RenderSelect
    \/ RenderAttribute \/ RenderStop \/ RenderStopDecoded \/ RenderStopRendered

CallerSteps ==
    PlayWhenEnqueued \/ PlayAssign \/ Enqueue

NextPlaythrough ==
    WorkerSteps \/ RenderSteps \/ CallerSteps \/ Collect

SpecPlaythrough ==
    /\ InitPlaythrough /\ [][NextPlaythrough]_vars
    /\ WF_vars(WorkerSteps) /\ WF_vars(RenderSteps) /\ WF_vars(Collect)
    /\ WF_vars(CallerSteps)

InSlot(d) == \E i \in Slots : mActiveDecoders[i] = d

\* C39: slots do not leak -- with the output playing, the state of every
\* decoder the worker inserted is in the end taken out of its slot by the
\* collector: no run goes on for ever with the output playing and a state
\* staying in its slot (runs that dereference a destroyed state aside).
C39_SlotsDoNotLeak ==
    \A d \in Decoders : ~<>[](Defined /\ outputRunning /\ InSlot(d))

\* Stop() called by a render callback while the worker holds a decoder or
\* one is queued.
EarlyStop ==
    /\ rpc \in {"stop", "stopDecoded", "stopRendered"}
    /\ (wDecoder # NULL \/ mDecoderQueue # <<>>)

\* A slot leaks only in runs with such a Stop().
SlotsLeakOnlyAfterEarlyStop ==
    C39_SlotsDoNotLeak \/ <>EarlyStop

\* ------------------------------------------------------------------ the output device
\* AudioPlayer::SetOutputDeviceID (lines 787-800): CloseOutput destroys the
\* IOProc of the old device (line 1865), so that device no longer calls it,
\* and OpenOutput creates one for the new device (line 1759), which is not
\* started.  Neither looks at mIsPlaying nor writes it.  When the IOProc
\* cannot be destroyed the call returns false and nothing has changed.
SetOutputDeviceID ==
    /\ Defined
    /\ cpc = "idle"
    /\ \/ outputRunning' = FALSE
       \/ outputRunning' = outputRunning
    /\ pausedAt' = <<>>
    /\ UNCHANGED <<mIsPlaying, mFlags, mDecoderQueue, mActiveDecoders, mFramesDecoded,
                   mFramesRendered, mFramesRenderedLastPass, ring, states>>
    /\ UNCHANGED <<decoderVars, workerVars, renderVars, callerVars, log, fetchVars, uaf>>
    /\ UNCHANGED <<formatVars, attributeVars, cResult, failuresLeft, changesLeft, hpc>>

\* AudioPlayer::StartHoggingOutputDevice and StopHoggingOutputDevice (lines
\* 877-930, 933-981) have one shape: when the player is playing, Pause()
\* (lines 909-911, 964-966) ...
HoggingPause ==
    /\ Defined
    /\ cpc = "idle"
    /\ mIsPlaying
    /\ PauseEffect
    /\ cpc' = "hogging"
    /\ pausedAt' = <<>>
    /\ UNCHANGED <<mFlags, mDecoderQueue, mActiveDecoders, mFramesDecoded, mFramesRendered,
                   mFramesRenderedLastPass, ring, states>>
    /\ UNCHANGED <<enqueued, toEnqueue, seeksLeft, stopsLeft>>
    /\ UNCHANGED <<decoderVars, workerVars, renderVars, log, fetchVars, uaf>>
    /\ UNCHANGED <<formatVars, attributeVars, cResult, failuresLeft, changesLeft, hpc>>

\* ... the hog mode is set, and Play() is called (lines 926-927, 979-980),
\* which starts the device; or the hog mode could not be set and the call
\* returns false with the player paused (lines 922-923, 975-976).
HoggingPlay ==
    /\ Defined
    /\ cpc = "hogging"
    /\ \/ /\ outputRunning' = TRUE
          /\ cpc' = "playAssign"
       \/ /\ outputRunning' = outputRunning
          /\ cpc' = "idle"
    /\ UNCHANGED <<mIsPlaying, mFlags, mDecoderQueue, mActiveDecoders, mFramesDecoded,
                   mFramesRendered, mFramesRenderedLastPass, ring, states>>
    /\ UNCHANGED <<enqueued, toEnqueue, seeksLeft, stopsLeft>>
    /\ UNCHANGED <<decoderVars, workerVars, renderVars, log, fetchVars, uaf>>
    /\ UNCHANGED controlVars

\* One decoder; the caller plays, pauses, stops once, changes the output
\* device and the hog mode.
InitDevice ==
    /\ Constructed
    /\ DecodersOfLengths({0, MaxLen})
    /\ decoderTotal = decoderLen
    /\ \A d \in Decoders : d > 1 => decoderLen[d] = 0
    /\ Undisturbed
    /\ observed = FALSE
    /\ toEnqueue = 1
    /\ seeksLeft = 0
    /\ stopsLeft = 1

NextDevice ==
    \/ WorkerDequeue \/ WorkerActivate \/ WorkerWhile \/ WorkerFor \/ WorkerDecode
    \/ RenderBegin \/ RenderFill \/ RenderFillDone \/ RenderLoad \/ RenderSelect
    \/ RenderAttribute \/ RenderStop \/ RenderStopDecoded \/ RenderStopRendered
    \/ Play \/ PlayAssign \/ Pause \/ Enqueue
    \/ Stop \/ StopDecoded \/ StopRendered
    \/ SetOutputDeviceID \/ HoggingPause \/ HoggingPlay
    \/ Collect

SpecDevice == InitDevice /\ [][NextDevice]_vars

\* ------------------------------------------------------------------ C40
\* No call of the caller, no property handler and no render callback is in
\* progress.
Quiet == cpc = "idle" /\ hpc = "idle" /\ rpc = "idle"

\* C40: whenever no control operation or property handler is in progress,
\* mIsPlaying is true exactly when the device has the IOProc started.
C40_IsPlayingIffOutputRunning ==
    Quiet => (mIsPlaying <=> outputRunning)

====
